---- MODULE Spec2Model ----
(***************************************************************************)
(* A model of InformationDatabase (src/information_database.py): the       *)
(* in-memory collection `data`, the operations add_entry, update_entry,    *)
(* delete_entry, search, get_all_entries, import_from_json, export_to_json,*)
(* save_data and load_data, the files they read and write, and the string  *)
(* functions they are built from; and of the search history that           *)
(* SimpleGoogleApp (src/google.py) keeps of the queries searched.          *)
(*                                                                         *)
(* A Python str is a sequence of one-character strings.  A Python dict is  *)
(* a function whose domain is its set of keys, so that a record read from  *)
(* a file may lack keys.  A reference to one of the store's records is     *)
(* its position in `data`.                                                 *)
(***************************************************************************)
EXTENDS Integers, Sequences, FiniteSets, TLC

VARIABLES
    data,    \* self.data: the list of entries
    now,     \* what datetime.now() yields, in seconds
    last,    \* the most recent call: its name, arguments and outcome
    addRun,  \* ids assigned by the successful adds since the last delete or import
    objs,    \* the identity of each dict of self.data, in list order
    held,    \* the list get_all_entries returned to its caller
    dataFile,    \* the content of the file self.data_file names
    exportFile,  \* the content of the file export_to_json wrote
    other,   \* a second InformationDatabase, constructed by the same program
    saved,   \* self.data as it was when save_data last wrote the file
    search_history,  \* SimpleGoogleApp's self.search_history
    historyFile      \* the content of search_history_simple.json

\* What the calls that deal with the collection alone leave as it is.
listVars == <<objs, held>>
fileVars == <<dataFile, exportFile, other, saved>>
\* What the calls of the store leave as it is: the application's history.
appVars == <<search_history, historyFile>>

vars == <<data, now, last, addRun, objs, held, dataFile, exportFile, other,
         saved, search_history, historyFile>>

\* ------------------------------------------------------------------ bounds

MaxEntries == 3
MaxEdited == 1
MaxClock == 1
MaxUpdated == 2
MaxHeld == 2
MaxSaved == 2
\* The distinct queries that are searched: one more than the application
\* writes to its history file.
MaxQueries == 21

\* ------------------------------------------------------- Python str methods

Whitespace == {" ", "\t", "\n"}

UpperCase == <<"A", "B", "C", "D", "E", "F", "G", "H", "I", "J", "K", "L", "M",
               "N", "O", "P", "Q", "R", "S", "T", "U", "V", "W", "X", "Y", "Z">>
LowerCase == <<"a", "b", "c", "d", "e", "f", "g", "h", "i", "j", "k", "l", "m",
               "n", "o", "p", "q", "r", "s", "t", "u", "v", "w", "x", "y", "z">>

LowerChar(c) ==
    IF \E i \in DOMAIN UpperCase : UpperCase[i] = c
    THEN LowerCase[CHOOSE i \in DOMAIN UpperCase : UpperCase[i] = c]
    ELSE c

\* str.lower()
Lower(s) == [i \in 1..Len(s) |-> LowerChar(s[i])]

\* str.strip(): without the leading and the trailing whitespace
Strip(s) ==
    LET keep == {i \in 1..Len(s) : s[i] \notin Whitespace}
    IN  IF keep = {} THEN <<>>
        ELSE LET lo == CHOOSE i \in keep : \A j \in keep : i <= j
                 hi == CHOOSE i \in keep : \A j \in keep : j <= i
             IN  SubSeq(s, lo, hi)

\* `sub in s`
Contains(s, sub) ==
    \E i \in 0..(Len(s) - Len(sub)) : SubSeq(s, i + 1, i + Len(sub)) = sub

\* sep.join(parts)
RECURSIVE Join(_, _)
Join(parts, sep) ==
    IF Len(parts) = 0 THEN <<>>
    ELSE IF Len(parts) = 1 THEN parts[1]
    ELSE parts[1] \o sep \o Join(Tail(parts), sep)

NotBlank(s) == Strip(s) # <<>>

\* [tag.strip() for tag in tags if tag.strip()]
RECURSIVE CleanTags(_)
CleanTags(tags) ==
    IF tags = <<>> THEN <<>>
    ELSE (IF NotBlank(tags[1]) THEN <<Strip(tags[1])>> ELSE <<>>)
         \o CleanTags(Tail(tags))

\* [tag.lower() for tag in tags if tag.strip()]
RECURSIVE LowerTags(_)
LowerTags(tags) ==
    IF tags = <<>> THEN <<>>
    ELSE (IF NotBlank(tags[1]) THEN <<Lower(tags[1])>> ELSE <<>>)
         \o LowerTags(Tail(tags))

\* ------------------------------------------------------------- dict access

Has(entry, key) == key \in DOMAIN entry

\* entry[key] = value
Put(entry, key, value) ==
    [k \in (DOMAIN entry) \cup {key} |-> IF k = key THEN value ELSE entry[k]]

NoMetadata == [k \in {} |-> <<>>]

\* ------------------------------------------------------------------- add

\* The two validation gates of add_entry.
\*   (a variant that tests the strings as given)
ValidateUnstripped(title, content, content_type) ==
    /\ title # <<>>
    /\ ~(content_type = "article" /\ content = <<>>)
Validate(title, content, content_type) ==
    /\ Strip(title) # <<>>
    /\ ~(content_type = "article" /\ Strip(content) = <<>>)

\* len(self.data) + 1
\*   (variants: the number of distinct ids plus 1, the greatest id plus 1)
NextIdDistinct(d) == Cardinality({d[i].id : i \in 1..Len(d)}) + 1
NextIdMax(d) ==
    LET ids == {d[i].id : i \in 1..Len(d)}
    IN  IF ids = {} THEN 1 ELSE (CHOOSE m \in ids : \A n \in ids : n <= m) + 1
NextId(d) == Len(d) + 1

\* searchable_parts of add_entry, joined
AddSearchable(title, content, tags, content_type, metadata) ==
    Join(<<Lower(title)>>
         \o (IF Strip(content) # <<>> THEN <<Lower(content)>> ELSE <<>>)
         \o LowerTags(tags)
         \o (IF content_type \in DOMAIN metadata
             THEN <<Lower(metadata[content_type])>> ELSE <<>>),
         <<" ">>)

NewEntry(d, a, t) ==
    [id |-> NextId(d),
     title |-> Strip(a.title),
     content |-> Strip(a.content),
     url |-> Strip(a.url),
     tags |-> CleanTags(a.tags),
     content_type |-> a.content_type,
     metadata |-> a.metadata,
     searchable_text |-> AddSearchable(a.title, a.content, a.tags,
                                       a.content_type, a.metadata),
     created_at |-> t,
     updated_at |-> t]

\* add_entry: the collection afterwards and the value returned
\*   (a variant that appends before it validates)
add_entryNoGate(d, a, t) ==
    [data |-> Append(d, NewEntry(d, a, t)),
     ret |-> Validate(a.title, a.content, a.content_type)]
add_entry(d, a, t) ==
    IF ~Validate(a.title, a.content, a.content_type)
    THEN [data |-> d, ret |-> FALSE]
    ELSE [data |-> Append(d, NewEntry(d, a, t)), ret |-> TRUE]

\* ---------------------------------------------------------------- update

\* An optional argument: `given` is FALSE for None.
None == [given |-> FALSE, v |-> <<>>]
Some(v) == [given |-> TRUE, v |-> v]

\* A scan that keeps the last entry with the id.
LastWithId(d, entry_id) ==
    LET hit == {i \in 1..Len(d) : d[i].id = entry_id}
    IN  IF hit = {} THEN 0 ELSE CHOOSE i \in hit : \A j \in hit : i >= j

\* The position of the first entry whose id is entry_id, 0 when there is none
\* (for entry in self.data: if entry["id"] == entry_id).
FirstWithId(d, entry_id) ==
    LET hit == {i \in 1..Len(d) : d[i].id = entry_id}
    IN  IF hit = {} THEN 0 ELSE CHOOSE i \in hit : \A j \in hit : i <= j

\* The assignments of update_entry
\*   (a variant that takes a url that was not given for an empty one)
AssignFieldsClearsUrl(e, u) ==
    LET e1 == IF u.title.given THEN Put(e, "title", Strip(u.title.v)) ELSE e
        e2 == IF u.content.given THEN Put(e1, "content", Strip(u.content.v)) ELSE e1
        e3 == Put(e2, "url", IF u.url.given THEN Strip(u.url.v) ELSE <<>>)
        e4 == IF u.tags.given THEN Put(e3, "tags", CleanTags(u.tags.v)) ELSE e3
        e5 == IF u.content_type.given
              THEN Put(e4, "content_type", u.content_type.v) ELSE e4
    IN  IF u.metadata.given THEN Put(e5, "metadata", u.metadata.v) ELSE e5

\* The six conditional assignments of update_entry.
AssignFields(e, u) ==
    LET e1 == IF u.title.given THEN Put(e, "title", Strip(u.title.v)) ELSE e
        e2 == IF u.content.given THEN Put(e1, "content", Strip(u.content.v)) ELSE e1
        e3 == IF u.url.given THEN Put(e2, "url", Strip(u.url.v)) ELSE e2
        e4 == IF u.tags.given THEN Put(e3, "tags", CleanTags(u.tags.v)) ELSE e3
        e5 == IF u.content_type.given
              THEN Put(e4, "content_type", u.content_type.v) ELSE e4
    IN  IF u.metadata.given THEN Put(e5, "metadata", u.metadata.v) ELSE e5

\* entry.get("metadata", {})
MetadataOf(e) == IF Has(e, "metadata") THEN e.metadata ELSE NoMetadata

\* searchable_parts of update_entry, joined
\*   (a variant without the type's metadata value, as import_from_json has it)
UpdateSearchableNoMetadata(e) ==
    Join(<<Lower(e.title)>>
         \o (IF Strip(e.content) # <<>> THEN <<Lower(e.content)>> ELSE <<>>)
         \o LowerTags(e.tags),
         <<" ">>)
UpdateSearchable(e) ==
    Join(<<Lower(e.title)>>
         \o (IF Strip(e.content) # <<>> THEN <<Lower(e.content)>> ELSE <<>>)
         \o LowerTags(e.tags)
         \o (IF e.content_type \in DOMAIN MetadataOf(e)
             THEN <<Lower(e.metadata[e.content_type])>> ELSE <<>>),
         <<" ">>)

\* The keys update_entry reads with entry[...] after the assignments: a
\* missing one raises KeyError, which update_entry does not catch.
UpdateReads == {"title", "content", "tags", "content_type"}

\* update_entry
\*   (a variant that stamps every entry when no entry has the id)
update_entryStamps(d, entry_id, u, t) ==
    LET i == FirstWithId(d, entry_id)
    IN  IF i = 0
        THEN [data |-> [k \in 1..Len(d) |-> Put(d[k], "updated_at", t)],
              ret |-> FALSE, raised |-> FALSE]
        ELSE LET e == AssignFields(d[i], u)
             IN  IF ~(UpdateReads \subseteq DOMAIN e)
                 THEN [data |-> [d EXCEPT ![i] = e], ret |-> FALSE, raised |-> TRUE]
                 ELSE [data |-> [d EXCEPT ![i] =
                                   Put(Put(e, "searchable_text", UpdateSearchable(e)),
                                       "updated_at", t)],
                       ret |-> TRUE, raised |-> FALSE]

\* update_entry: the collection afterwards, the value returned, and whether
\* the call raised instead of returning.  A call that raises has already
\* made its assignments.
update_entry(d, entry_id, u, t) ==
    LET i == FirstWithId(d, entry_id)
    IN  IF i = 0 THEN [data |-> d, ret |-> FALSE, raised |-> FALSE]
        ELSE LET e == AssignFields(d[i], u)
             IN  IF ~(UpdateReads \subseteq DOMAIN e)
                 THEN [data |-> [d EXCEPT ![i] = e], ret |-> FALSE, raised |-> TRUE]
                 ELSE [data |-> [d EXCEPT ![i] =
                                   Put(Put(e, "searchable_text", UpdateSearchable(e)),
                                       "updated_at", t)],
                       ret |-> TRUE, raised |-> FALSE]

\* ---------------------------------------------------------------- delete

\* del self.data[i]
RemoveAt(d, i) == SubSeq(d, 1, i - 1) \o SubSeq(d, i + 1, Len(d))

delete_entry(d, entry_id) ==
    LET i == FirstWithId(d, entry_id)
    IN  IF i = 0 THEN [data |-> d, ret |-> FALSE]
        ELSE [data |-> RemoveAt(d, i), ret |-> TRUE]

\* ---------------------------------------------------------------- search

\* re.compile(pattern) for the patterns of this model: a pattern is a
\* sequence of literal characters and of ".", and one holding a parenthesis
\* (never a balanced pair here) does not compile: re.error.
Compiles(pattern) ==
    \A k \in 1..Len(pattern) : pattern[k] \notin {"(", ")"}

\* Whether the pattern matches the text at position i ("." is any character
\* but a newline).
MatchesAt(pattern, text, i) ==
    /\ i + Len(pattern) - 1 <= Len(text)
    /\ \A k \in 1..Len(pattern) :
          \/ pattern[k] = text[i + k - 1]
          \/ pattern[k] = "." /\ text[i + k - 1] # "\n"

\* len(re.findall(pattern, text)) from position i on: the matches are found
\* left to right and do not overlap.
RECURSIVE FindallFrom(_, _, _)
FindallFrom(pattern, text, i) ==
    IF i > Len(text) THEN 0
    ELSE IF MatchesAt(pattern, text, i)
         THEN 1 + FindallFrom(pattern, text, i + Len(pattern))
         ELSE FindallFrom(pattern, text, i + 1)

Findall(pattern, text) == FindallFrom(pattern, text, 1)

\* The score search gives an entry for the lower-cased query.
\*   (a variant that counts the content once, not per occurrence)
ScoreContentOnce(entry, query) ==
    (IF Contains(Lower(entry.title), query) THEN 10 ELSE 0)
    + (IF Contains(Lower(entry.content), query) THEN 2 ELSE 0)
    + Cardinality({k \in 1..Len(entry.tags) :
                     Contains(Lower(entry.tags[k]), query)}) * 5
    + Findall(query, entry.searchable_text)
Score(entry, query) ==
    (IF Contains(Lower(entry.title), query) THEN 10 ELSE 0)
    + Findall(query, Lower(entry.content)) * 2
    + Cardinality({k \in 1..Len(entry.tags) :
                     Contains(Lower(entry.tags[k]), query)}) * 5
    + Findall(query, entry.searchable_text)

\* results.sort(key=lambda x: x[1], reverse=True): a stable sort, so `hit`
\* goes behind every result whose score is not smaller.
\*   (a variant that puts it in front of the results of equal score)
RECURSIVE InsertByScoreUnstable(_, _)
InsertByScoreUnstable(sorted, hit) ==
    IF sorted = <<>> THEN <<hit>>
    ELSE IF sorted[1].score > hit.score
         THEN <<sorted[1]>> \o InsertByScoreUnstable(Tail(sorted), hit)
         ELSE <<hit>> \o sorted
RECURSIVE InsertByScore(_, _)
InsertByScore(sorted, hit) ==
    IF sorted = <<>> THEN <<hit>>
    ELSE IF sorted[1].score >= hit.score
         THEN <<sorted[1]>> \o InsertByScore(Tail(sorted), hit)
         ELSE <<hit>> \o sorted

RECURSIVE SortByScore(_)
SortByScore(results) ==
    IF results = <<>> THEN <<>>
    ELSE InsertByScore(SortByScore(SubSeq(results, 1, Len(results) - 1)),
                       results[Len(results)])

\* The loop of search over entries i..len(data): the (entry, score) pairs
\* with a positive score, an entry being its position in the collection.
RECURSIVE Scan(_, _, _)
Scan(d, query, i) ==
    IF i > Len(d) THEN <<>>
    ELSE (IF Score(d[i], query) > 0
          THEN <<[entry |-> i, score |-> Score(d[i], query)]>> ELSE <<>>)
         \o Scan(d, query, i + 1)

\* The keys search reads with entry[...].
SearchReads == {"title", "content", "tags", "searchable_text"}

\* `if not query.strip()`
\*   (a variant without the strip)
IsEmptyQueryUnstripped(query) == query = <<>>
IsEmptyQuery(query) == Strip(query) = <<>>

\* search: the entries returned (positions in the collection), and whether the
\* call raised (re.error or KeyError, neither is caught) instead of returning.
search(d, query) ==
    IF IsEmptyQuery(query) THEN [hits |-> <<>>, raised |-> FALSE]
    ELSE IF \/ Len(d) > 0 /\ ~Compiles(Lower(query))
            \/ \E i \in 1..Len(d) : ~(SearchReads \subseteq DOMAIN d[i])
         THEN [hits |-> <<>>, raised |-> TRUE]
         ELSE LET sorted == SortByScore(Scan(d, Lower(query), 1))
              IN  [hits |-> [k \in 1..Len(sorted) |-> sorted[k].entry],
                   raised |-> FALSE]

\* ---------------------------------------------------------------- import

\* entry.get('tags', [])
TagsOf(e) == IF Has(e, "tags") THEN e.tags ELSE <<>>

\* f"{entry['title']} {entry['content']} {' '.join(entry.get('tags', []))}".lower()
ImportSearchable(e) ==
    Lower(e.title \o <<" ">> \o e.content \o <<" ">> \o Join(TagsOf(e), <<" ">>))

\* The body of the import loop
\*   (a variant that keeps the id an object brings)
ImportEntryKeepsId(d, e, i, t) ==
    LET e1 == IF Has(e, "id") THEN e ELSE Put(e, "id", Len(d) + i)
        e2 == Put(e1, "searchable_text", ImportSearchable(e))
        e3 == IF Has(e2, "created_at") THEN e2 ELSE Put(e2, "created_at", t)
    IN  Put(e3, "updated_at", t)

\* The body of the import loop
\*   (a variant that keeps the updated_at an object brings)
ImportEntryKeepsUpdatedAt(d, e, i, t) ==
    LET e1 == Put(e, "id", Len(d) + i)
        e2 == Put(e1, "searchable_text", ImportSearchable(e))
        e3 == IF Has(e2, "created_at") THEN e2 ELSE Put(e2, "created_at", t)
    IN  IF Has(e3, "updated_at") THEN e3 ELSE Put(e3, "updated_at", t)

\* The body of the import loop for the i-th object (1-based) of the array.
ImportEntry(d, e, i, t) ==
    LET e1 == Put(e, "id", Len(d) + i)
        e2 == Put(e1, "searchable_text", ImportSearchable(e))
        e3 == IF Has(e2, "created_at") THEN e2 ELSE Put(e2, "created_at", t)
    IN  Put(e3, "updated_at", t)

\* Whether the loop body raises on an array element: an element that is not
\* an object (TypeError) or lacks title or content (KeyError).
ImportRaises(item) ==
    \/ ~item.isdict
    \/ ~({"title", "content"} \subseteq DOMAIN item.obj)

\* import_from_json
\*   (a variant that takes a JSON value that is no array for an empty array)
import_from_jsonAnyValue(d, file, t) ==
    IF file.kind = "unreadable" THEN [data |-> d, ret |-> FALSE]
    ELSE IF \E i \in 1..Len(file.items) : ImportRaises(file.items[i])
         THEN [data |-> d, ret |-> FALSE]
         ELSE [data |-> d \o [i \in 1..Len(file.items) |->
                                ImportEntry(d, file.items[i].obj, i, t)],
               ret |-> TRUE]

\* The elements of an array before its first element that raises.
RECURSIVE Preceding(_)
Preceding(items) ==
    IF items = <<>> \/ ImportRaises(Head(items)) THEN <<>>
    ELSE <<Head(items)>> \o Preceding(Tail(items))

\* import_from_json
\*   (a variant that appends each element as the loop reaches it)
import_from_jsonAsItGoes(d, file, t) ==
    IF file.kind # "array" THEN [data |-> d, ret |-> FALSE]
    ELSE IF \E i \in 1..Len(file.items) : ImportRaises(file.items[i])
         THEN [data |-> d \o [i \in 1..Len(Preceding(file.items)) |->
                                ImportEntry(d, file.items[i].obj, i, t)],
               ret |-> FALSE]
         ELSE [data |-> d \o [i \in 1..Len(file.items) |->
                                ImportEntry(d, file.items[i].obj, i, t)],
               ret |-> TRUE]

\* import_from_json on a file: unreadable or not JSON, a JSON value that is no
\* array, or an array of items.  Every exception is caught and gives False.
import_from_json(d, file, t) ==
    IF file.kind # "array" THEN [data |-> d, ret |-> FALSE]
    ELSE IF \E i \in 1..Len(file.items) : ImportRaises(file.items[i])
         THEN [data |-> d, ret |-> FALSE]
         ELSE [data |-> d \o [i \in 1..Len(file.items) |->
                                ImportEntry(d, file.items[i].obj, i, t)],
               ret |-> TRUE]

\* ---------------------------------------------------------------- files

Object(obj) == [isdict |-> TRUE, obj |-> obj]
NotAnObject == [isdict |-> FALSE, obj |-> <<>>]

\* The arrays import_from_json is called with.
Array(items) == [kind |-> "array", items |-> items]

\* A file that does not exist.
NoFile == [kind |-> "absent", items |-> <<>>]

\* json.dump(self.data, f): a list of dicts becomes an array of objects, in
\* list order.  A str, an int, a list of str and a dict with str keys are
\* written as the string, number, array and object that json.load reads
\* back as the same value.
\*   (a variant that leaves the metadata of an entry out)
ToJsonWithoutMetadata(d) ==
    [kind |-> "array",
     items |-> [i \in 1..Len(d) |->
                  [isdict |-> TRUE,
                   obj |-> [key \in DOMAIN d[i] \ {"metadata"} |-> d[i][key]]]]]
ToJson(d) == Array([i \in 1..Len(d) |-> Object(d[i])])

\* save_data and export_to_json write a file: open(name, 'w') and
\* json.dump.  If the file cannot be opened for writing it stays as it
\* was and the call returns False.
WriteJson(file, d, writable) ==
    IF writable THEN [file |-> ToJson(d), ret |-> TRUE]
    ELSE [file |-> file, ret |-> FALSE]

\* save_data
\*   (a variant that keeps the entries the file holds and self.data lacks)
save_dataMerging(file, d, writable) ==
    IF ~writable THEN [file |-> file, ret |-> FALSE]
    ELSE IF file.kind # "array" THEN [file |-> ToJson(d), ret |-> TRUE]
    ELSE [file |-> [kind |-> "array",
                    items |-> ToJson(d).items \o
                              SelectSeq(file.items,
                                        LAMBDA item :
                                            \A i \in 1..Len(d) : d[i] # item.obj)],
          ret |-> TRUE]
save_data(file, d, writable) == WriteJson(file, d, writable)

export_to_json(file, d, writable) == WriteJson(file, d, writable)

\* The files load_data leaves self.data = [] on.
NoList == {"absent", "unreadable", "number", "null"}

\* load_data
\*   (a variant that gives an entry without content_type the default one)
load_dataWithDefaults(file) ==
    IF file.kind \in NoList THEN <<>>
    ELSE [i \in 1..Len(file.items) |->
            IF Has(file.items[i].obj, "content_type") THEN file.items[i].obj
            ELSE Put(file.items[i].obj, "content_type", "article")]

\* load_data: no file gives [], and so do a file that cannot be read or is
\* no JSON (open or json.load raises) and a file holding a number or null
\* (len(self.data) raises); an array of objects gives the list of the
\* dicts.  A file holding a JSON object or string would leave self.data no
\* list; load_data is not applied to one here.
load_data(file) ==
    IF file.kind \in NoList THEN <<>>
    ELSE [i \in 1..Len(file.items) |-> file.items[i].obj]

\* InformationDatabase(data_file): self.data after __init__, which never
\* raises, load_data catching every exception.
\*   (a variant whose load_data catches nothing)
InformationDatabaseNoCatch(file) ==
    [data |-> load_data(file),
     raised |-> file.kind \in {"unreadable", "number", "null"}]
InformationDatabase(file) == [data |-> load_data(file), raised |-> FALSE]

\* The one method that opens self.data_file for writing is save_data: what
\* a call of a method leaves in that file.
\*   (a variant in which add_entry saves)
DataFileAfterAutoSave(op, file, d, writable) ==
    IF op \in {"save", "add"} THEN save_data(file, d, writable).file ELSE file
DataFileAfter(op, file, d, writable) ==
    IF op = "save" THEN save_data(file, d, writable).file ELSE file

\* ------------------------------------------------------------------ reads

\* get_entry_by_id: the first entry of the list with the id, or None.  The
\* entry returned is the store's dict: what is returned is its position, 0
\* for None.
\*   (a variant that returns the last entry with the id)
get_entry_by_idLast(d, entry_id) ==
    LET hit == {i \in 1..Len(d) : d[i].id = entry_id}
    IN  IF hit = {} THEN 0 ELSE CHOOSE i \in hit : \A j \in hit : i >= j
get_entry_by_id(d, entry_id) ==
    LET hit == {i \in 1..Len(d) : d[i].id = entry_id}
    IN  IF hit = {} THEN 0 ELSE CHOOSE i \in hit : \A j \in hit : i <= j

\* entry[key] = value, by a caller, on an entry that get_entry_by_id,
\* get_all_entries or search returned: each returns the dicts of self.data
\* themselves, so the assignment is to the store's dict, at position i.
\*   (a variant in which the caller was given a copy of the dict)
AssignToCopy(d, i, key, value) == d
AssignToReturned(d, i, key, value) == [d EXCEPT ![i] = Put(d[i], key, value)]

\* self.data after search, get_all_entries, get_entry_by_id, export_to_json
\* or get_statistics: none of them assigns to self.data, calls a method of
\* the list that changes it, or assigns to an entry.
\*   (a variant in which search sorts self.data itself)
AfterReadSorting(op, d) ==
    IF op = "search" THEN [k \in 1..Len(d) |-> d[Len(d) + 1 - k]] ELSE d
AfterRead(op, d) == d

\* ------------------------------------------------------------- the list

\* A list is the sequence of the identities of the dicts it holds; self.data
\* is `objs`, and the dict with identity objs[i] has the content data[i].
Range(seq) == {seq[i] : i \in 1..Len(seq)}

\* The identity of a new dict: one that no dict in use has.
Fresh(used) ==
    CHOOSE o \in 1..(Cardinality(used) + 1) :
        o \notin used /\ \A p \in 1..(o - 1) : p \in used

RECURSIVE FreshSeq(_, _)
FreshSeq(used, n) ==
    IF n = 0 THEN <<>>
    ELSE LET o == Fresh(used) IN <<o>> \o FreshSeq(used \cup {o}, n - 1)

\* get_all_entries: self.data.copy(), a new list of the same dicts
\*   (a variant that returns self.data itself)
get_all_entriesNoCopy(ids) == [list |-> "self.data", items |-> <<>>]
get_all_entries(ids) == [list |-> "copy", items |-> ids]

\* ------------------------------------------------------------ statistics

\* The characters of the strings, in the order of their code points, which
\* is the order sorted() compares str by.
CodeOrder == <<"\t", "\n", " ", "(", ")", ".">> \o UpperCase \o LowerCase

Ord(c) == CHOOSE i \in DOMAIN CodeOrder : CodeOrder[i] = c

\* s < t for two str
RECURSIVE StrLess(_, _)
StrLess(s, t) ==
    IF t = <<>> THEN FALSE
    ELSE IF s = <<>> THEN TRUE
    ELSE IF Head(s) = Head(t) THEN StrLess(Tail(s), Tail(t))
    ELSE Ord(Head(s)) < Ord(Head(t))

\* sorted(list(a_set)) for a set of str
\*   (a variant that sorts from the greatest down)
RECURSIVE SortedDescending(_)
SortedDescending(S) ==
    IF S = {} THEN <<>>
    ELSE LET m == CHOOSE x \in S : \A y \in S \ {x} : StrLess(y, x)
         IN  <<m>> \o SortedDescending(S \ {m})
RECURSIVE Sorted(_)
Sorted(S) ==
    IF S = {} THEN <<>>
    ELSE LET m == CHOOSE x \in S : \A y \in S \ {x} : StrLess(x, y)
         IN  <<m>> \o Sorted(S \ {m})

\* entry.get("content_type", "article")
TypeOf(e) == IF Has(e, "content_type") THEN e.content_type ELSE "article"

\* get_content_types: how many entries each content type has
get_content_types(d) ==
    [type \in {TypeOf(d[i]) : i \in 1..Len(d)} |->
        Cardinality({i \in 1..Len(d) : TypeOf(d[i]) = type})]

\* get_statistics, without data_file and file_size, which describe the file
get_statistics(d) ==
    LET total_tags == UNION {Range(TagsOf(d[i])) : i \in 1..Len(d)}
    IN  [total_entries |-> Len(d),
         total_tags |-> Cardinality(total_tags),
         tags_list |-> Sorted(total_tags),
         content_types |-> get_content_types(d)]

\* ---------------------------------------------------------------- inputs

\* The strings the calls are made with.
sBlank == <<" ", "\t">>
sT == <<"T">>
sX == <<"x">>
sSpaces == <<" ", " ">>
sRustGuide == <<"R", "u", "s", "t", " ", "G", "u", "i", "d", "e">>
sRustContent == <<"r", "u", "s", "t", " ", "r", "u", "s", "t", " ", "p", "r", "o", "g", "r", "a", "m", "m", "i", "n", "g">>
sRust == <<"r", "u", "s", "t">>
sRustUpper == <<"R", "u", "s", "t">>
sSystems == <<"s", "y", "s", "t", "e", "m", "s">>
sGo == <<"G", "o">>
sPadTitle == <<" ", "A", ".", "b", " ">>
sPadContent == <<" ", "x", " ">>
sPadTag == <<" ", "T", "x", " ">>
sPadUrl == <<" ", "u", " ">>
sNote == <<"N", "o", "t", "e", " ", "x">>
sDot == <<".">>
sParen == <<"(">>
sPadRust == <<" ", "r", "u", "s", "t", " ">>

AddArgs(title, content, url, tags, content_type, metadata) ==
    [title |-> title, content |-> content, url |-> url, tags |-> tags,
     content_type |-> content_type, metadata |-> metadata]

\* The argument lists add_entry is called with: the failing validations, an
\* entry without content, the entries of the scoring example, and an entry
\* whose strings carry surrounding whitespace and whose metadata has a value
\* under its own content type.
AddInputs ==
    { AddArgs(<<>>, sX, <<>>, <<>>, "article", NoMetadata),
      AddArgs(sBlank, sX, <<>>, <<>>, "link", NoMetadata),
      AddArgs(sT, <<>>, <<>>, <<>>, "article", NoMetadata),
      AddArgs(sT, sSpaces, <<>>, <<>>, "article", NoMetadata),
      AddArgs(sT, <<>>, <<>>, <<>>, "link", NoMetadata),
      AddArgs(sRustGuide, sRustContent, <<>>, <<sRust, sSystems>>, "article",
              NoMetadata),
      AddArgs(sGo, <<>>, <<>>, <<sRustUpper>>, "link", NoMetadata),
      AddArgs(sPadTitle, sPadContent, sPadUrl, <<sPadTag, sSpaces>>, "article",
              [article |-> sNote]) }

UpdateArgs(title, content, url, tags, content_type, metadata) ==
    [title |-> title, content |-> content, url |-> url, tags |-> tags,
     content_type |-> content_type, metadata |-> metadata]

\* The argument lists update_entry is called with: nothing, a blank title,
\* a content alone, and every field at once.
UpdateInputs ==
    { UpdateArgs(None, None, None, None, None, None),
      UpdateArgs(Some(sBlank), None, None, None, None, None),
      UpdateArgs(None, Some(sPadRust), None, None, None, None),
      UpdateArgs(Some(sPadTitle), Some(<<>>), Some(sPadUrl),
                 Some(<<sPadTag, sSpaces>>), Some("link"),
                 Some([link |-> sNote])) }

\* The ids update_entry and delete_entry are called with, one of them the
\* id of no entry.
Ids == 1..(MaxEntries + 1)

\* The queries search is called with.
Queries == {<<>>, sSpaces, sRust, sRustUpper, sT, sDot, sParen}

\* an entry as export_to_json writes it
Exported ==
    Object([id |-> 7, title |-> sT, content |-> sX, url |-> <<>>,
            tags |-> <<sRust>>, content_type |-> "article",
            metadata |-> [article |-> sNote],
            searchable_text |-> <<"t", " ", "x", " ", "r", "u", "s", "t", " ", "n", "o", "t", "e", " ", "x">>,
            created_at |-> 0, updated_at |-> 0])
\* hand-written entries: one without content, metadata and timestamps, one
\* with blank content and a blank tag, one with the two required keys only,
\* and one without a title
NoContent ==
    Object([title |-> sT, content |-> <<>>, tags |-> <<sX>>,
            content_type |-> "link"])
BlankContent ==
    Object([title |-> sGo, content |-> sSpaces, tags |-> <<sSpaces>>,
            content_type |-> "link", metadata |-> NoMetadata])
RequiredOnly == Object([title |-> sRustGuide, content |-> sRustContent])
NoTitle == Object([content |-> sX])

\* A file whose JSON value is no array.
NotAnArray(kind) == [kind |-> kind, items |-> <<>>]

\* The files a store is constructed on: none, one that cannot be read or
\* parsed, and one holding an entry.
Unreadable == [kind |-> "unreadable", items |-> <<>>]
LoadFiles == {NoFile, Unreadable, Array(<<Exported>>)}

\* The files import_from_json is called with: one that cannot be read or
\* parsed, files whose JSON value is an object, a string, a number or null,
\* and arrays.
ImportFiles ==
    { [kind |-> "unreadable", items |-> <<>>],
      NotAnArray("object"),
      NotAnArray("string"),
      NotAnArray("number"),
      NotAnArray("null"),
      Array(<<>>),
      Array(<<Exported>>),
      Array(<<NoContent>>),
      Array(<<BlankContent>>),
      Array(<<RequiredOnly>>),
      Array(<<NoContent, BlankContent>>),
      Array(<<NoContent, NoTitle>>),
      Array(<<NotAnObject>>) }

\* ------------------------------------------------------ the search history

\* SimpleGoogleApp (src/google.py) keeps the queries that were searched in
\* self.search_history and writes them to search_history_simple.json.

\* The 20 of self.search_history[-20:]
HistoryKept == 20

\* lst[-n:]: the last n elements of a list, all of them if it has fewer
LastOf(lst, n) ==
    SubSeq(lst, IF Len(lst) > n THEN Len(lst) - n + 1 ELSE 1, Len(lst))

\* lst.remove(x), for a list that holds x: the list without the first x
RemoveFirst(lst, x) ==
    LET i == CHOOSE k \in 1..Len(lst) :
                 lst[k] = x /\ \A j \in 1..(k - 1) : lst[j] # x
    IN  SubSeq(lst, 1, i - 1) \o SubSeq(lst, i + 1, Len(lst))

\* save_simple_history, on a file that can be written: what the file holds
\* afterwards
save_simple_history(history) == Array(LastOf(history, HistoryKept))

\* load_simple_history: self.search_history after it, which was [] before
load_simple_history(file) ==
    IF file.kind = "array" THEN file.items ELSE <<>>

\* add_to_history(query): self.search_history and the file after the call
add_to_history(history, file, query) ==
    IF query # <<>> /\ Strip(query) # <<>>
    THEN LET q == Strip(query)
             removed == IF q \in Range(history) THEN RemoveFirst(history, q)
                        ELSE history
             inserted == <<q>> \o removed
         IN  [history |-> inserted, file |-> save_simple_history(inserted)]
    ELSE [history |-> history, file |-> file]

\* --------------------------------------------------------- the state machine

\* What get_statistics returned, for the calls of the other methods.
NoStatistics == [total_entries |-> 0, total_tags |-> 0, tags_list |-> <<>>,
                 content_types |-> <<>>]

NoCall == [op |-> "none", args |-> <<>>, t |-> 0, ret |-> FALSE,
           raised |-> FALSE, hits |-> <<>>, stats |-> NoStatistics]

Call(op, args, ret, raised, hits) ==
    [op |-> op, args |-> args, t |-> now, ret |-> ret, raised |-> raised,
     hits |-> hits, stats |-> NoStatistics]

\* No list has been returned yet.
NotHeld == [list |-> "none", items |-> <<>>]

\* No second InformationDatabase has been constructed yet.
NotBuilt == [built |-> FALSE, data |-> <<>>]

\* InformationDatabase(data_file) on a file that does not exist
Init ==
    /\ data = <<>>
    /\ now = 0
    /\ last = NoCall
    /\ addRun = <<>>
    /\ objs = <<>>
    /\ held = NotHeld
    /\ dataFile = NoFile
    /\ exportFile = NoFile
    /\ other = NotBuilt
    /\ saved = <<>>
    /\ search_history = load_simple_history(NoFile)
    /\ historyFile = NoFile

\* InformationDatabase(data_file) on a file that does not exist, cannot be
\* read or parsed, or holds an array of entries.
InitLoad ==
    \E file \in LoadFiles :
        LET r == InformationDatabase(file)
        IN  /\ data = r.data
            /\ now = 0
            /\ last = [NoCall EXCEPT !.op = "construct",
                                     !.args = [file |-> file],
                                     !.raised = r.raised]
            /\ addRun = <<>>
            /\ objs = <<>>
            /\ held = NotHeld
            /\ dataFile = file
            /\ exportFile = NoFile
            /\ other = NotBuilt
            /\ saved = r.data
            /\ search_history = load_simple_history(NoFile)
            /\ historyFile = NoFile

AddEntry(inputs, cap) ==
    \E a \in inputs :
        LET r == add_entry(data, a, now)
        IN  /\ Len(r.data) <= cap
            /\ data' = r.data
            /\ last' = Call("add", a, r.ret, FALSE, <<>>)
            /\ addRun' = IF r.ret THEN Append(addRun, r.data[Len(r.data)].id)
                         ELSE addRun
            /\ UNCHANGED now

UpdateEntry(inputs) ==
    \E entry_id \in Ids, u \in inputs :
        LET r == update_entry(data, entry_id, u, now)
        IN  /\ data' = r.data
            /\ last' = Call("update", [id |-> entry_id, u |-> u], r.ret,
                            r.raised, <<>>)
            /\ UNCHANGED <<now, addRun>>

DeleteEntry ==
    \E entry_id \in Ids :
        LET r == delete_entry(data, entry_id)
        IN  /\ data' = r.data
            /\ last' = Call("delete", [id |-> entry_id], r.ret, FALSE, <<>>)
            /\ addRun' = <<>>
            /\ UNCHANGED now

Search(queries) ==
    \E query \in queries :
        LET r == search(data, query)
        IN  /\ last' = Call("search", [query |-> query], FALSE, r.raised, r.hits)
            /\ data' = AfterRead("search", data)
            /\ UNCHANGED <<now, addRun>>

ImportFromJson(files, cap) ==
    \E file \in files :
        LET r == import_from_json(data, file, now)
        IN  /\ Len(r.data) <= cap
            /\ data' = r.data
            /\ last' = Call("import", [file |-> file], r.ret, FALSE, <<>>)
            /\ addRun' = <<>>
            /\ UNCHANGED now

\* A second passes.
Tick ==
    /\ now < MaxClock
    /\ now' = now + 1
    /\ UNCHANGED <<data, last, addRun>>

GetEntryById ==
    \E entry_id \in Ids :
        LET i == get_entry_by_id(data, entry_id)
        IN  /\ last' = Call("get_by_id", [id |-> entry_id], i # 0, FALSE,
                            IF i = 0 THEN <<>> ELSE <<i>>)
            /\ data' = AfterRead("get_by_id", data)
            /\ UNCHANGED <<now, addRun>>

GetStatistics ==
    /\ last' = [Call("statistics", <<>>, FALSE, FALSE, <<>>)
                   EXCEPT !.stats = get_statistics(data)]
    /\ data' = AfterRead("statistics", data)
    /\ UNCHANGED <<now, addRun>>

\* The dicts a list can hold.
Live == Range(objs) \cup Range(held.items)

\* add_entry, delete_entry and import_from_json as they act on the list
\* self.data: append, del and extend.
AddEntryToList(inputs, cap) ==
    /\ AddEntry(inputs, cap)
    /\ objs' = objs \o FreshSeq(Live, Len(data') - Len(data))
    /\ UNCHANGED held

DeleteEntryFromList ==
    /\ DeleteEntry
    /\ objs' = IF last'.ret
               THEN RemoveAt(objs, FirstWithId(data, last'.args.id))
               ELSE objs
    /\ UNCHANGED held

ImportFromJsonToList(files, cap) ==
    /\ ImportFromJson(files, cap)
    /\ objs' = objs \o FreshSeq(Live, Len(data') - Len(data))
    /\ UNCHANGED held

GetAllEntries ==
    /\ held' = get_all_entries(objs)
    /\ last' = Call("get_all", <<>>, FALSE, FALSE, <<>>)
    /\ data' = AfterRead("get_all", data)
    /\ UNCHANGED <<now, addRun, objs>>

\* The list the caller of get_all_entries holds, and an assignment to it: if
\* it is self.data, the store's list is what changes.
HeldList == IF held.list = "self.data" THEN objs ELSE held.items

EntryOf(o) == data[CHOOSE i \in 1..Len(objs) : objs[i] = o]

SetHeldList(items) ==
    IF held.list = "self.data"
    THEN /\ objs' = items
         /\ data' = [k \in 1..Len(items) |-> EntryOf(items[k])]
         /\ UNCHANGED held
    ELSE /\ held' = [held EXCEPT !.items = items]
         /\ UNCHANGED <<data, objs>>

\* The caller appends to the list it was returned (here its first element
\* once more), removes its last element, or reverses it.
HeldAppend ==
    /\ held.list # "none"
    /\ HeldList # <<>>
    /\ Len(HeldList) < MaxHeld
    /\ SetHeldList(Append(HeldList, HeldList[1]))
    /\ last' = Call("append", <<>>, FALSE, FALSE, <<>>)
    /\ UNCHANGED <<now, addRun>>

HeldPop ==
    /\ held.list # "none"
    /\ HeldList # <<>>
    /\ SetHeldList(SubSeq(HeldList, 1, Len(HeldList) - 1))
    /\ last' = Call("pop", <<>>, FALSE, FALSE, <<>>)
    /\ UNCHANGED <<now, addRun>>

HeldReverse ==
    /\ held.list # "none"
    /\ SetHeldList([k \in 1..Len(HeldList) |-> HeldList[Len(HeldList) + 1 - k]])
    /\ last' = Call("reverse", <<>>, FALSE, FALSE, <<>>)
    /\ UNCHANGED <<now, addRun>>

\* save_data and export_to_json of the store, on a file that can be opened
\* for writing or cannot.
SaveData ==
    \E writable \in BOOLEAN :
        LET r == save_data(dataFile, data, writable)
        IN  /\ dataFile' = DataFileAfter("save", dataFile, data, writable)
            /\ last' = Call("save", [writable |-> writable], r.ret, FALSE, <<>>)
            /\ saved' = IF r.ret THEN data ELSE saved
            /\ UNCHANGED <<data, now, addRun, exportFile, other>>

ExportToJson ==
    \E writable \in BOOLEAN :
        LET r == export_to_json(exportFile, data, writable)
        IN  /\ exportFile' = r.file
            /\ last' = Call("export", [writable |-> writable], r.ret, FALSE, <<>>)
            /\ data' = AfterRead("export", data)
            /\ UNCHANGED <<now, addRun, dataFile, other, saved>>

\* A second InformationDatabase is constructed, on the data file of the
\* first or on a file of its own that does not exist.
Construct(data_files) ==
    \E data_file \in data_files :
        /\ other' = [built |-> TRUE,
                     data |-> InformationDatabase(IF data_file = "same"
                                                  THEN dataFile ELSE NoFile).data]
        /\ last' = Call("construct", [data_file |-> data_file], FALSE, FALSE, <<>>)
        /\ UNCHANGED <<data, now, addRun, dataFile, exportFile, saved>>

\* The second InformationDatabase imports the file the first exported.
OtherImportFromJson(cap) ==
    LET r == import_from_json(other.data, exportFile, now)
    IN  /\ other.built
        /\ Len(r.data) <= cap
        /\ other' = [other EXCEPT !.data = r.data]
        /\ last' = Call("other.import", [file |-> exportFile, into |-> other.data],
                        r.ret, FALSE, <<>>)
        /\ UNCHANGED <<data, now, addRun, dataFile, exportFile, saved>>

\* add_entry and save_data of the second InformationDatabase.
OtherAddEntry(inputs, cap) ==
    \E a \in inputs :
        LET r == add_entry(other.data, a, now)
        IN  /\ other.built
            /\ Len(r.data) <= cap
            /\ other' = [other EXCEPT !.data = r.data]
            /\ last' = Call("other.add", a, r.ret, FALSE, <<>>)
            /\ UNCHANGED <<data, now, addRun, dataFile, exportFile, saved>>

OtherSaveData ==
    \E writable \in BOOLEAN :
        LET r == save_data(dataFile, other.data, writable)
        IN  /\ other.built
            /\ dataFile' = r.file
            /\ last' = Call("other.save", [writable |-> writable], r.ret, FALSE,
                            <<>>)
            /\ UNCHANGED <<data, now, addRun, exportFile, other, saved>>

\* The positions in self.data of the dicts the call just made returned.
Returned ==
    IF last.op \in {"get_by_id", "search"} THEN Range(last.hits)
    ELSE IF last.op = "get_all"
         THEN {p \in 1..Len(objs) : objs[p] \in Range(held.items)}
         ELSE {}

\* The caller of get_entry_by_id, get_all_entries or search assigns a title
\* to one of the entries it was returned.
CallerAssign(values) ==
    \E i \in Returned, value \in values :
        /\ data' = AssignToReturned(data, i, "title", value)
        /\ last' = Call("assign", [at |-> i, key |-> "title", value |-> value],
                        FALSE, FALSE, <<>>)
        /\ UNCHANGED <<now, addRun>>


\* add_to_history(query), as perform_search calls it with the query that was
\* searched
AddToHistory(queries) ==
    \E query \in queries :
        LET r == add_to_history(search_history, historyFile, query)
        IN  /\ search_history' = r.history
            /\ historyFile' = r.file
            /\ last' = Call("add_to_history", [query |-> query], FALSE, FALSE,
                            <<>>)
            /\ UNCHANGED <<data, now, addRun>>

\* The store and its ids: entries are added, deleted and imported while time
\* passes.
StoreAdds == {a \in AddInputs : a.title \in {sT, sBlank} /\ a.content_type = "link"}
StoreFiles == {[kind |-> "object", items |-> <<>>], Array(<<Exported>>),
               Array(<<NoContent, BlankContent>>)}

NextStore ==
    \/ AddEntry(StoreAdds, MaxEntries) /\ UNCHANGED <<listVars, fileVars, appVars>>
    \/ DeleteEntry /\ UNCHANGED <<listVars, fileVars, appVars>>
    \/ ImportFromJson(StoreFiles, MaxEntries) /\ UNCHANGED <<listVars, fileVars, appVars>>
    \/ Tick /\ UNCHANGED <<listVars, fileVars, appVars>>

SpecStore == Init /\ [][NextStore]_vars

\* The fields of an entry and its searchable text: a collection of at most
\* MaxEdited entries is added to, updated and imported into.
NextText ==
    \/ AddEntry(AddInputs, MaxEdited) /\ UNCHANGED <<listVars, fileVars, appVars>>
    \/ UpdateEntry(UpdateInputs) /\ UNCHANGED <<listVars, fileVars, appVars>>
    \/ ImportFromJson(ImportFiles, MaxEdited) /\ UNCHANGED <<listVars, fileVars, appVars>>

SpecText == Init /\ [][NextText]_vars

\* Search: a collection built by add and import is searched.
SearchAdds == {a \in AddInputs : Validate(a.title, a.content, a.content_type)}
SearchFiles == {Array(<<RequiredOnly>>), Array(<<NoContent>>)}

NextSearch ==
    \/ AddEntry(SearchAdds, MaxEntries) /\ UNCHANGED <<listVars, fileVars, appVars>>
    \/ ImportFromJson(SearchFiles, MaxEntries) /\ UNCHANGED <<listVars, fileVars, appVars>>
    \/ Search(Queries) /\ UNCHANGED <<listVars, fileVars, appVars>>

SpecSearch == Init /\ [][NextSearch]_vars

\* Update: the entries of a collection of at most MaxUpdated entries are
\* updated while time passes.
UpdateAdds == {a \in AddInputs : a.title = sT /\ a.content_type = "link"}

UpdateEdits == {u \in UpdateInputs : u.content.given \/ ~u.title.given}

NextUpdate ==
    \/ AddEntry(UpdateAdds, MaxUpdated) /\ UNCHANGED <<listVars, fileVars, appVars>>
    \/ UpdateEntry(UpdateEdits) /\ UNCHANGED <<listVars, fileVars, appVars>>
    \/ Tick /\ UNCHANGED <<listVars, fileVars, appVars>>

SpecUpdate == Init /\ [][NextUpdate]_vars

\* The list get_all_entries returns: the store adds, deletes and imports
\* while a caller edits the list it was returned.  The collection has at
\* most MaxHeld entries, and an import is made while it has room for one
\* more.
ListFiles == {Array(<<Exported>>)}

NextList ==
    \/ AddEntryToList(UpdateAdds, MaxHeld) /\ UNCHANGED <<fileVars, appVars>>
    \/ DeleteEntryFromList /\ UNCHANGED <<fileVars, appVars>>
    \/ ImportFromJsonToList(ListFiles, MaxHeld - 1) /\ UNCHANGED <<fileVars, appVars>>
    \/ GetAllEntries /\ UNCHANGED <<fileVars, appVars>>
    \/ HeldAppend /\ UNCHANGED <<fileVars, appVars>>
    \/ HeldPop /\ UNCHANGED <<fileVars, appVars>>
    \/ HeldReverse /\ UNCHANGED <<fileVars, appVars>>

SpecList == Init /\ [][NextList]_vars

\* Export and import: a collection of at most MaxSaved entries is exported,
\* and a second store imports the file.
ExportAdds == {a \in AddInputs : a.title = sGo \/ a.title = sPadTitle}

ExportFiles == {Array(<<RequiredOnly>>)}

NextExport ==
    \/ AddEntry(ExportAdds, MaxSaved) /\ UNCHANGED <<listVars, fileVars, appVars>>
    \/ ImportFromJson(ExportFiles, MaxSaved) /\ UNCHANGED <<listVars, fileVars, appVars>>
    \/ ExportToJson /\ UNCHANGED <<listVars, appVars>>
    \/ Construct({"new"}) /\ UNCHANGED <<listVars, appVars>>
    \/ OtherImportFromJson(MaxSaved) /\ UNCHANGED <<listVars, appVars>>
    \/ Tick /\ UNCHANGED <<listVars, fileVars, appVars>>

SpecExport == Init /\ [][NextExport]_vars

\* The fields update_entry was given a value for.
Given(u) == {key \in DOMAIN u : u[key].given}

\* Statistics: of a collection built by add and import.
StatisticsFiles == {Array(<<RequiredOnly>>), Array(<<BlankContent>>)}

NextStatistics ==
    \/ AddEntry(SearchAdds, MaxEntries) /\ UNCHANGED <<listVars, fileVars, appVars>>
    \/ ImportFromJson(StatisticsFiles, MaxEntries)
          /\ UNCHANGED <<listVars, fileVars, appVars>>
    \/ GetStatistics /\ UNCHANGED <<listVars, fileVars, appVars>>

SpecStatistics == Init /\ [][NextStatistics]_vars

\* Construction: a store is constructed on a file and then added to,
\* searched, asked for its statistics and saved.
LoadAdds == {a \in AddInputs : a.title \in {sT, sRustGuide}}
LoadQueries == {<<>>, sRust, sParen}

NextLoad ==
    \/ AddEntry(LoadAdds, MaxSaved) /\ UNCHANGED <<listVars, fileVars, appVars>>
    \/ Search(LoadQueries) /\ UNCHANGED <<listVars, fileVars, appVars>>
    \/ GetStatistics /\ UNCHANGED <<listVars, fileVars, appVars>>
    \/ SaveData /\ UNCHANGED <<listVars, appVars>>

SpecLoad == InitLoad /\ [][NextLoad]_vars

\* Reads: a collection built by add and import is searched, listed, looked
\* up, exported and counted.
ReadFiles == {Array(<<NoContent>>)}

NextRead ==
    \/ AddEntryToList(LoadAdds, MaxHeld) /\ UNCHANGED <<fileVars, appVars>>
    \/ ImportFromJsonToList(ReadFiles, MaxHeld) /\ UNCHANGED <<fileVars, appVars>>
    \/ Search(LoadQueries) /\ UNCHANGED <<listVars, fileVars, appVars>>
    \/ GetAllEntries /\ UNCHANGED <<fileVars, appVars>>
    \/ GetEntryById /\ UNCHANGED <<listVars, fileVars, appVars>>
    \/ ExportToJson /\ UNCHANGED <<listVars, appVars>>
    \/ GetStatistics /\ UNCHANGED <<listVars, fileVars, appVars>>

SpecRead == Init /\ [][NextRead]_vars

\* Two stores on one file: each is added to and saved.
OtherAdds == {a \in AddInputs : a.title = sGo}

NextTwo ==
    \/ AddEntry(UpdateAdds, MaxSaved) /\ UNCHANGED <<listVars, fileVars, appVars>>
    \/ SaveData /\ UNCHANGED <<listVars, appVars>>
    \/ Construct({"same"}) /\ UNCHANGED <<listVars, appVars>>
    \/ OtherAddEntry(OtherAdds, MaxSaved) /\ UNCHANGED <<listVars, appVars>>
    \/ OtherSaveData /\ UNCHANGED <<listVars, appVars>>

SpecTwo == Init /\ [][NextTwo]_vars

\* Returned entries: a caller assigns to an entry it was returned, and the
\* store is looked up, searched and saved afterwards.
ReturnedQueries == {sRust, sT}

NextReturned ==
    \/ AddEntryToList(UpdateAdds, MaxHeld) /\ UNCHANGED <<fileVars, appVars>>
    \/ GetEntryById /\ UNCHANGED <<listVars, fileVars, appVars>>
    \/ GetAllEntries /\ UNCHANGED <<fileVars, appVars>>
    \/ Search(ReturnedQueries) /\ UNCHANGED <<listVars, fileVars, appVars>>
    \/ CallerAssign({sRust}) /\ UNCHANGED <<listVars, fileVars, appVars>>
    \/ SaveData /\ UNCHANGED <<listVars, appVars>>
    \/ Tick /\ UNCHANGED <<listVars, fileVars, appVars>>

SpecReturned == Init /\ [][NextReturned]_vars

\* Entries with the same id: entries are added, deleted, updated and looked
\* up by id.
SameIdAdds == {a \in AddInputs : a.content_type = "link" /\ a.title # sBlank}
SameIdEdits == {u \in UpdateInputs : Given(u) = {"content"}}

NextSameId ==
    \/ AddEntry(SameIdAdds, MaxUpdated) /\ UNCHANGED <<listVars, fileVars, appVars>>
    \/ DeleteEntry /\ UNCHANGED <<listVars, fileVars, appVars>>
    \/ UpdateEntry(SameIdEdits) /\ UNCHANGED <<listVars, fileVars, appVars>>
    \/ GetEntryById /\ UNCHANGED <<listVars, fileVars, appVars>>

SpecSameId == Init /\ [][NextSameId]_vars

\* The data file: a collection of at most MaxEdited entries is changed and
\* saved, and a second store is constructed on the same file.
SaveFiles == {Array(<<RequiredOnly>>)}
SaveEdits == {u \in UpdateInputs : Given(u) = DOMAIN u}

NextSave ==
    \/ /\ AddEntry(UpdateAdds, MaxEdited)
       /\ dataFile' = DataFileAfter("add", dataFile, data', TRUE)
       /\ UNCHANGED <<listVars, exportFile, other, saved, appVars>>
    \/ /\ UpdateEntry(SaveEdits)
       /\ dataFile' = DataFileAfter("update", dataFile, data', TRUE)
       /\ UNCHANGED <<listVars, exportFile, other, saved, appVars>>
    \/ /\ DeleteEntry
       /\ dataFile' = DataFileAfter("delete", dataFile, data', TRUE)
       /\ UNCHANGED <<listVars, exportFile, other, saved, appVars>>
    \/ /\ ImportFromJson(SaveFiles, MaxEdited)
       /\ dataFile' = DataFileAfter("import", dataFile, data', TRUE)
       /\ UNCHANGED <<listVars, exportFile, other, saved, appVars>>
    \/ SaveData /\ UNCHANGED <<listVars, appVars>>
    \/ Construct({"same"}) /\ UNCHANGED <<listVars, appVars>>

SpecSave == Init /\ [][NextSave]_vars

\* The search history: the application searches a query it has not searched
\* before, or the first query again, or a blank one.  The n-th new query is
\* n letters long and is typed with spaces around it.
Query(n) == [i \in 1..n |-> "q"]

HistoryQueries ==
    {Query(1), sSpaces, <<>>} \cup
    (IF Len(search_history) < MaxQueries
     THEN {<<" ">> \o Query(Len(search_history) + 1) \o <<" ">>}
     ELSE {})

NextHistory ==
    \/ AddToHistory(HistoryQueries) /\ UNCHANGED <<listVars, fileVars>>

SpecHistory == Init /\ [][NextHistory]_vars

\* -------------------------------------------------------------- properties

\* A string that is empty or holds whitespace only.
IsBlank(s) == \A i \in 1..Len(s) : s[i] \in Whitespace

\* The ids of the entries, in collection order.
IdsOf(d) == [i \in 1..Len(d) |-> d[i].id]

\* C1: over a run of add calls with no delete and no import in between, from
\* whatever the store held, the ids the successful adds assign are pairwise
\* distinct and each is 1 greater than the one before; a failed add assigns
\* none.
C1_AddIdsConsecutive ==
    /\ \A k \in 1..(Len(addRun) - 1) : addRun[k + 1] = addRun[k] + 1
    /\ \A j, k \in 1..Len(addRun) : j # k => addRun[j] # addRun[k]

\* Two successful adds and then a failed one, into a store that held an entry
\* a delete had left.
C1_Witness ==
    /\ Len(addRun) = 2
    /\ Len(data) = 3
    /\ data[1].id # 1
    /\ last.op = "add"
    /\ ~last.ret

C3_AddReturnsFalseExactlyWhenInvalid ==
    last.op = "add" =>
        (~last.ret <=>
            \/ IsBlank(last.args.title)
            \/ last.args.content_type = "article" /\ IsBlank(last.args.content))

\* An add of empty content under the content type "link" returned true.
C3_Witness ==
    /\ last.op = "add"
    /\ last.ret
    /\ last.args.content = <<>>
    /\ last.args.content_type = "link"

\* C4: an add that returns false leaves the collection as it was, and with it
\* the next id.
C4_FailedAddChangesNothing ==
    [][(last'.op = "add" /\ ~last'.ret)
          => data' = data /\ NextId(data') = NextId(data)]_vars

\* A failed add on a collection that holds an entry.
C4_Witness ==
    /\ last.op = "add"
    /\ ~last.ret
    /\ Len(data) > 0

\* The position of the entry the last add or update acted on.
Target ==
    IF last.op = "add" THEN Len(data) ELSE FirstWithId(data, last.args.id)

\* C5: every entry that a successful add or update acted on has a non-empty
\* title.
C5_TitleNonEmptyAfterAddOrUpdate ==
    (last.op \in {"add", "update"} /\ last.ret) => data[Target].title # <<>>

\* The metadata value under the entry's own content type, lower-cased, if
\* there is one.
TypeMetadataPart(e) ==
    IF /\ Has(e, "content_type")
       /\ Has(e, "metadata")
       /\ e.content_type \in DOMAIN e.metadata
    THEN <<Lower(e.metadata[e.content_type])>>
    ELSE <<>>

\* The rule as stated: the lower-cased title, the lower-cased content if it
\* is not empty, every tag lower-cased, the type's metadata value, joined by
\* single spaces.
StatedRule(e) ==
    Join(<<Lower(e.title)>>
         \o (IF e.content = <<>> THEN <<>> ELSE <<Lower(e.content)>>)
         \o [k \in 1..Len(TagsOf(e)) |-> Lower(TagsOf(e)[k])]
         \o TypeMetadataPart(e),
         <<" ">>)

\* The rule with blank in the place of empty: the content if it is not blank,
\* and the tags that are not blank.
BlankRule(e) ==
    Join(<<Lower(e.title)>>
         \o (IF IsBlank(e.content) THEN <<>> ELSE <<Lower(e.content)>>)
         \o SelectSeq([k \in 1..Len(TagsOf(e)) |-> Lower(TagsOf(e)[k])],
                      LAMBDA tag : ~IsBlank(tag))
         \o TypeMetadataPart(e),
         <<" ">>)

Affected ==
    CASE last.op = "add" /\ last.ret -> {Len(data)}
      [] last.op = "update" /\ last.ret -> {Target}
      [] last.op = "import" /\ last.ret ->
            (Len(data) - Len(last.args.file.items) + 1)..Len(data)
      [] OTHER -> {}

\* C7: after add, update and import alike, the searchable_text of every entry
\* the call added or changed is what the rule gives for the entry's stored
\* fields.
C7_SearchableTextConsistent ==
    \A i \in Affected : data[i].searchable_text = BlankRule(data[i])

\* The score as stated, for a query without regular-expression
\* metacharacters: occurrences are counted left to right without overlap.
RECURSIVE Occurrences(_, _)
Occurrences(text, sub) ==
    IF Len(text) < Len(sub) THEN 0
    ELSE IF SubSeq(text, 1, Len(sub)) = sub
         THEN 1 + Occurrences(SubSeq(text, Len(sub) + 1, Len(text)), sub)
         ELSE Occurrences(Tail(text), sub)

StatedScore(e, q) ==
    (IF Occurrences(Lower(e.title), q) > 0 THEN 10 ELSE 0)
    + 2 * Occurrences(Lower(e.content), q)
    + 5 * Len(SelectSeq(e.tags, LAMBDA tag : Occurrences(Lower(tag), q) > 0))
    + Occurrences(e.searchable_text, q)

Metacharacters ==
    {".", "^", "$", "*", "+", "?", "{", "}", "[", "]", "\\", "|", "(", ")"}

\* The last call was a search with a query that is not blank, and it returned.
Searched ==
    /\ last.op = "search"
    /\ ~IsBlank(last.args.query)
    /\ ~last.raised

\* Where entry i stands in the result of the last search, 0 if nowhere.
Rank(i) ==
    IF \E k \in 1..Len(last.hits) : last.hits[k] = i
    THEN CHOOSE k \in 1..Len(last.hits) : last.hits[k] = i
    ELSE 0

\* C8: for a query that is not blank, search returns exactly the entries
\* whose score is positive, each once, by non-increasing score, and entries
\* of equal score in collection order.
C8_SearchResult ==
    Searched =>
        LET q == Lower(last.args.query)
            hits == last.hits
        IN  /\ \A k \in 1..Len(hits) :
                  hits[k] \in 1..Len(data) /\ Score(data[hits[k]], q) > 0
            /\ \A i \in 1..Len(data) :
                  Score(data[i], q) > 0
                      => Cardinality({k \in 1..Len(hits) : hits[k] = i}) = 1
            /\ \A j, k \in 1..Len(hits) :
                  j < k =>
                      /\ Score(data[hits[j]], q) >= Score(data[hits[k]], q)
                      /\ Score(data[hits[j]], q) = Score(data[hits[k]], q)
                             => hits[j] < hits[k]

\* A search that left an entry out, put a later entry first and returned two
\* entries of equal score.
C8_Witness ==
    /\ Searched
    /\ Len(data) = 3
    /\ last.hits = <<3, 1>>
       \/ /\ last.hits = <<3, 1, 2>>
          /\ Score(data[1], Lower(last.args.query))
                = Score(data[2], Lower(last.args.query))

\* The entry of the scoring example, as add stores it.
IsRustGuide(e) ==
    /\ e.title = sRustGuide
    /\ e.content = sRustContent
    /\ e.tags = <<sRust, sSystems>>
    /\ e.searchable_text = <<"r", "u", "s", "t", " ", "g", "u", "i", "d", "e", " ", "r", "u", "s", "t", " ", "r", "u", "s", "t", " ", "p", "r", "o", "g", "r", "a", "m", "m", "i", "n", "g", " ", "r", "u", "s", "t", " ", "s", "y", "s", "t", "e", "m", "s">>

\* An entry that matches the query through one tag and nothing else.
MatchesOneTagOnly(e, q) ==
    /\ ~Contains(Lower(e.title), q)
    /\ ~Contains(Lower(e.content), q)
    /\ Cardinality({k \in 1..Len(e.tags) : Contains(Lower(e.tags[k]), q)}) = 1

C10_BlankQueryReturnsNothing ==
    (last.op = "search" /\ IsBlank(last.args.query)) =>
        last.hits = <<>> /\ ~last.raised

\* A search with a query of spaces in a collection on which scoring an entry
\* raises, and which holds an entry the query occurs in.
C10_Witness ==
    /\ last.op = "search"
    /\ last.args.query = sSpaces
    /\ \E i \in 1..Len(data) : ~Has(data[i], "tags")
    /\ \E i \in 1..Len(data) : Contains(data[i].searchable_text, sSpaces)

\* C11: no operation lets an exception escape to its caller: every call
\* returns.
C11_NoExceptionEscapes == ~last.raised

\* The positions of the entries of d with the id.
WithId(d, entry_id) == {i \in 1..Len(d) : d[i].id = entry_id}

\* C14: delete(id) with a matching entry returns true and removes exactly the
\* first entry with the id, the others staying unmodified in their order;
\* with no matching entry it returns false and the collection is unchanged.
C14_DeleteRemovesFirstMatch ==
    [][(last'.op = "delete" /\ now' = now) =>
        LET hit == WithId(data, last'.args.id)
        IN  IF hit = {}
            THEN ~last'.ret /\ data' = data
            ELSE /\ last'.ret
                 /\ Len(data') = Len(data) - 1
                 /\ \E i \in hit :
                       /\ \A j \in hit : i <= j
                       /\ \A k \in 1..(i - 1) : data'[k] = data[k]
                       /\ \A k \in i..Len(data') : data'[k] = data[k + 1]]_vars

\* A delete of an id two entries had: the second of them is still there.
C14_Witness ==
    /\ last.op = "delete"
    /\ last.ret
    /\ Len(data) >= 2
    /\ WithId(data, last.args.id) # {}

\* C15: update with an id no entry has returns false and leaves every entry,
\* its updated_at and searchable_text included, unchanged.
C15_UpdateOfUnknownIdChangesNothing ==
    [][(/\ last'.op = "update"
        /\ now' = now
        /\ WithId(data, last'.args.id) = {})
       => (~last'.ret /\ ~last'.raised /\ data' = data)]_vars

\* An update of an unknown id, on a collection whose entries were written
\* at an earlier time.
C15_Witness ==
    /\ last.op = "update"
    /\ WithId(data, last.args.id) = {}
    /\ ~last.ret
    /\ data # <<>>
    /\ \A i \in 1..Len(data) : data[i].updated_at < last.t

\* C16: a successful update changes only the entry it targets, and of it only
\* the fields given plus searchable_text and updated_at: the other fields, id
\* and created_at among them, keep their values, the entry keeps its
\* position, and no other entry is modified.
C16_UpdateChangesOnlyGivenFields ==
    [][(last'.op = "update" /\ now' = now /\ last'.ret) =>
        LET i == FirstWithId(data, last'.args.id)
            may == Given(last'.args.u) \cup {"searchable_text", "updated_at"}
        IN  /\ i # 0
            /\ Len(data') = Len(data)
            /\ \A k \in 1..Len(data) : k # i => data'[k] = data[k]
            /\ DOMAIN data'[i] \subseteq DOMAIN data[i] \cup may
            /\ \A key \in DOMAIN data[i] \ may :
                  /\ key \in DOMAIN data'[i]
                  /\ data'[i][key] = data[i][key]
            /\ data'[i].id = data[i].id
            /\ data'[i].created_at = data[i].created_at
            /\ data'[i].updated_at = now]_vars

\* An update of the content alone, a second after the entry was created, in
\* a collection of two: the entry has the new content, the title and the url
\* it had, and a later updated_at.
C16_Witness ==
    /\ last.op = "update"
    /\ last.ret
    /\ Given(last.args.u) = {"content"}
    /\ Len(data) = 2
    /\ LET e == data[FirstWithId(data, last.args.id)]
       IN  /\ e.content = Strip(last.args.u.content.v)
           /\ e.url # <<>>
           /\ e.created_at < e.updated_at
           /\ e.updated_at = last.t

\* The keys import_from_json writes whatever the object holds.
ImportWrites == {"id", "searchable_text", "updated_at"}

\* C18: a successful import of an array of n objects into a collection of s
\* entries appends the n objects in array order, so that the size is s + n;
\* the i-th of them gets the id s + i whatever id the file gave it, and the
\* s entries there were are unmodified.
C18_ImportAppendsAndRenumbers ==
    [][(last'.op = "import" /\ now' = now /\ last'.ret) =>
        LET items == last'.args.file.items
            s == Len(data)
        IN  /\ Len(data') = s + Len(items)
            /\ \A k \in 1..s : data'[k] = data[k]
            /\ \A i \in 1..Len(items) :
                  /\ data'[s + i].id = s + i
                  /\ \A key \in DOMAIN items[i].obj \ ImportWrites :
                        /\ key \in DOMAIN data'[s + i]
                        /\ data'[s + i][key] = items[i].obj[key]]_vars

\* An import of the object with id 7 into a collection of two entries: it is
\* the third entry and has the id 3.
C18_Witness ==
    /\ last.op = "import"
    /\ last.ret
    /\ last.args.file = Array(<<Exported>>)
    /\ Len(data) = 3
    /\ data[3].id = 3
    /\ data[3].title = Exported.obj.title

\* C19: import returns false and leaves the collection unchanged when the
\* JSON value of the file is no array (an object, a string, a number, null)
\* or the file cannot be read or parsed.
C19_ImportOfNoArrayChangesNothing ==
    [][(/\ last'.op = "import"
        /\ now' = now
        /\ last'.args.file.kind # "array")
       => (~last'.ret /\ data' = data)]_vars

\* An import of a file holding a JSON object, into a collection of one entry.
C19_Witness ==
    /\ last.op = "import"
    /\ last.args.file.kind = "object"
    /\ ~last.ret
    /\ Len(data) = 1

\* C13: the list get_all returns is not the store's list.  Appending to it,
\* removing from it and reordering it leave the store's collection as it is,
\* and the store's later adds, deletes and imports change neither the length
\* nor the order of a list returned before.
C13_ReturnedListIsDistinct ==
    [][/\ (last'.op \in {"append", "pop", "reverse"} /\ now' = now)
          => (data' = data /\ objs' = objs)
       /\ (last'.op \in {"add", "delete", "import"} /\ held.list # "none")
          => HeldList' = HeldList]_vars

\* A caller got the list of two entries and reversed it, then the store
\* deleted the first entry: the caller's list still holds both, reversed,
\* and the store's list holds the second alone.
C13_Witness ==
    /\ last.op = "delete"
    /\ last.ret
    /\ held.list = "copy"
    /\ held.items = <<2, 1>>
    /\ objs = <<2>>
    /\ Len(data) = 1

\* The fields an export and import are to carry over.
Carried == {"title", "content", "tags", "content_type", "metadata"}

SameCarried(a, b) ==
    \A key \in Carried :
        /\ key \in DOMAIN a <=> key \in DOMAIN b
        /\ key \in DOMAIN a => a[key] = b[key]

\* C17: exporting the whole collection and importing the file into a fresh,
\* empty store gives a collection of the same length whose k-th entry has
\* the title, content, tags, content_type and metadata of the k-th entry of
\* the exporting store.
C17_ExportImportRoundTrip ==
    (/\ last.op = "other.import"
     /\ last.args.into = <<>>
     /\ last.args.file = export_to_json(NoFile, data, TRUE).file)
    => /\ last.ret
       /\ Len(other.data) = Len(data)
       /\ \A k \in 1..Len(data) : SameCarried(other.data[k], data[k])

\* A store of two entries, one of them read from a file that gave it no
\* content_type and no metadata, was exported, and a new store imported the
\* file a second later: its entries have the later updated_at.
C17_Witness ==
    /\ last.op = "other.import"
    /\ last.ret
    /\ last.args.into = <<>>
    /\ last.args.file = export_to_json(NoFile, data, TRUE).file
    /\ Len(other.data) = 2
    /\ \E k \in 1..2 : ~Has(data[k], "metadata")
    /\ \E k \in 1..2 : Has(data[k], "metadata") /\ data[k].metadata # NoMetadata
    /\ \A k \in 1..2 : other.data[k].updated_at > data[k].updated_at

\* C20: add, update, delete and import change the collection in memory
\* alone: the content of the data file changes only when save is called, and
\* a second store constructed on the same file holds what the last save
\* wrote, not the changes made since.
C20_NoAutoFlush ==
    [][/\ dataFile' # dataFile => last'.op = "save"
       /\ (last'.op \in {"add", "update", "delete", "import"} /\ now' = now)
          => dataFile' = dataFile
       /\ (last'.op = "construct" /\ last'.args.data_file = "same")
          => other'.data = saved]_vars

\* A store saved its one entry, then updated it; a second store constructed
\* on the file holds the entry as it was saved.
C20_Witness ==
    /\ last.op = "construct"
    /\ last.args.data_file = "same"
    /\ Len(saved) = 1
    /\ other.data = saved
    /\ Len(data) = 1
    /\ data[1].title # saved[1].title

\* C25: on a successful import every imported entry has the time of the
\* import as its updated_at, whatever the file gave, and as its created_at
\* the value the file gave, or the time of the import if it gave none.
C25_ImportTimestamps ==
    [][(last'.op = "import" /\ now' = now /\ last'.ret) =>
        LET items == last'.args.file.items
            s == Len(data)
        IN  \A i \in 1..Len(items) :
               /\ s + i \in 1..Len(data')
               /\ data'[s + i].updated_at = now
               /\ data'[s + i].created_at =
                     IF Has(items[i].obj, "created_at")
                     THEN items[i].obj.created_at ELSE now]_vars

\* An import, at time 1, of an object the file gave the times 0 and 0, after
\* an import of an object the file gave no times.
C25_Witness ==
    /\ last.op = "import"
    /\ last.ret
    /\ last.t = 1
    /\ last.args.file = Array(<<Exported>>)
    /\ Len(data) = 3
    /\ data[3].created_at = 0
    /\ data[3].updated_at = 1
    /\ data[1].title = NoContent.obj.title
    /\ data[1].created_at = data[1].updated_at

\* An element of an imported array that cannot be processed: one that is no
\* object, or an object without a title or without a content.
Unprocessable(item) ==
    \/ ~item.isdict
    \/ "title" \notin DOMAIN item.obj
    \/ "content" \notin DOMAIN item.obj

\* C28: import is all-or-nothing.  If an element of the array cannot be
\* processed, import returns false and the collection is as it was: it has
\* none of the array's elements, not even those before the failing one.
C28_ImportAllOrNothing ==
    [][(/\ last'.op = "import"
        /\ now' = now
        /\ \E i \in 1..Len(last'.args.file.items) :
              Unprocessable(last'.args.file.items[i]))
       => (~last'.ret /\ data' = data)]_vars

\* An import of an array whose second element has no title, the first being
\* in order, into a collection of one entry.
C28_Witness ==
    /\ last.op = "import"
    /\ ~last.ret
    /\ last.args.file = Array(<<NoContent, NoTitle>>)
    /\ Len(data) = 1

\* The least of a set of positions.
First(hit) == CHOOSE i \in hit : \A j \in hit : i <= j

\* C27: when several entries have the same id, get_by_id, update and delete
\* act on the first of them in collection order: a later entry with the id is
\* not returned, modified or removed by the call.
C27_SameIdActsOnFirst ==
    [][(/\ last'.op \in {"get_by_id", "update", "delete"}
        /\ now' = now
        /\ Cardinality(WithId(data, last'.args.id)) >= 2) =>
        LET hit == WithId(data, last'.args.id)
            first == First(hit)
        IN  /\ last'.ret
            /\ last'.op = "get_by_id" =>
                  (last'.hits = <<first>> /\ data' = data)
            /\ last'.op = "update" =>
                  /\ Len(data') = Len(data)
                  /\ \A k \in 1..Len(data) : k # first => data'[k] = data[k]
                  /\ data'[first].content = Strip(last'.args.u.content.v)
            /\ last'.op = "delete" =>
                  /\ Len(data') = Len(data) - 1
                  /\ \A k \in 1..(first - 1) : data'[k] = data[k]
                  /\ \A k \in first..Len(data') : data'[k] = data[k + 1]]_vars

\* Two entries with the id 2 and different titles; get_by_id(2) returned
\* the first.
C27_Witness ==
    /\ last.op = "get_by_id"
    /\ last.args.id = 2
    /\ IdsOf(data) = <<2, 2>>
    /\ data[1].title # data[2].title
    /\ last.hits = <<1>>

AllTags(d) == UNION {Range(TagsOf(d[i])) : i \in 1..Len(d)}

\* The sum of the values of a function to the naturals.
RECURSIVE SumOf(_)
SumOf(f) ==
    IF DOMAIN f = {} THEN 0
    ELSE LET x == CHOOSE x \in DOMAIN f : TRUE
         IN  f[x] + SumOf([y \in DOMAIN f \ {x} |-> f[y]])

\* C22: statistics reports as total_entries the size of the collection, as
\* tags_list the duplicate-free sorted list of the tags of all entries, as
\* total_tags the length of tags_list, and as content_types counts that sum
\* to total_entries, an entry without content_type counting as "article".
C22_Statistics ==
    last.op = "statistics" =>
        LET st == last.stats
        IN  /\ ~last.raised
            /\ st.total_entries = Len(data)
            /\ Range(st.tags_list) = AllTags(data)
            /\ \A i, j \in 1..Len(st.tags_list) :
                  i < j => StrLess(st.tags_list[i], st.tags_list[j])
            /\ st.total_tags = Len(st.tags_list)
            /\ \A type \in DOMAIN st.content_types :
                  st.content_types[type] =
                      Cardinality({i \in 1..Len(data) :
                          IF Has(data[i], "content_type")
                          THEN data[i].content_type = type
                          ELSE type = "article"})
            /\ SumOf(st.content_types) = st.total_entries

\* Statistics of three entries: one without tags and content_type, and two
\* with the tags "rust" and "systems" each, so that four tags make a
\* tags_list of two.
C22_Witness ==
    /\ last.op = "statistics"
    /\ last.stats.total_entries = 3
    /\ last.stats.tags_list = <<sRust, sSystems>>
    /\ \E i \in 1..3 : ~Has(data[i], "content_type") /\ ~Has(data[i], "tags")
    /\ last.stats.content_types["article"] = 3

\* C21: constructing a store never raises, and on a file that does not
\* exist, cannot be read or is no JSON it leaves an empty collection, on
\* which the calls that follow work as on a new store: a valid add returns
\* true and gives the id 1, a search returns nothing, statistics counts no
\* entry, and none of them raises.
C21_ConstructNeverFails ==
    /\ [](last.op = "construct" =>
             /\ ~last.raised
             /\ last.args.file.kind \in {"absent", "unreadable"} => data = <<>>)
    /\ [][(/\ last.op = "construct"
           /\ last.args.file.kind \in {"absent", "unreadable"}
           /\ last'.op # "construct") =>
           /\ ~last'.raised
           /\ last'.op = "add" =>
                 /\ last'.ret = Validate(last'.args.title, last'.args.content,
                                         last'.args.content_type)
                 /\ last'.ret => (Len(data') = 1 /\ data'[1].id = 1)
           /\ last'.op = "search" => last'.hits = <<>>
           /\ last'.op = "statistics" => last'.stats.total_entries = 0]_vars

\* A store constructed on a file that cannot be parsed was added to: it has
\* the one entry, with the id 1, and the file is as it was.
C21_Witness ==
    /\ dataFile = Unreadable
    /\ last.op = "add"
    /\ last.ret
    /\ Len(data) = 1
    /\ data[1].id = 1

\* C26: search, get_all, get_by_id, export and statistics are read-only:
\* whichever of them is called, and whether it returns or raises, the
\* collection has afterwards the entries it had, in their order and with
\* every field.
C26_ReadsChangeNothing ==
    [][(/\ last'.op \in {"search", "get_all", "get_by_id", "export",
                         "statistics"}
        /\ now' = now)
       => (data' = data /\ objs' = objs)]_vars

\* A search that found the second of the two entries of the collection, the
\* first being an imported one without metadata.
C26_Witness ==
    /\ last.op = "search"
    /\ last.hits = <<2>>
    /\ Len(data) = 2
    /\ ~Has(data[1], "metadata")

\* What a store reads from the file is the collection d.
FileHolds(file, d) ==
    /\ file.kind = "array"
    /\ Len(file.items) = Len(d)
    /\ \A i \in 1..Len(d) : file.items[i].isdict /\ file.items[i].obj = d[i]

\* C23: when two stores that loaded the same file have each made a change
\* and both save, each save returns true and the file holds afterwards
\* exactly the collection of the store that saved last; what the other
\* store saved is gone from the file, and no call reports it.
C23_LastWriterWins ==
    [][/\ (last'.op = "save" /\ now' = now /\ last'.args.writable)
          => (last'.ret /\ ~last'.raised /\ FileHolds(dataFile', data))
       /\ (last'.op = "other.save" /\ now' = now /\ last'.args.writable)
          => (last'.ret /\ ~last'.raised /\ FileHolds(dataFile', other.data))]_vars

\* The first store saved an entry, the second store loaded the file, each
\* added an entry of its own, the first saved and then the second: the file
\* holds the second store's two entries, and the entry the first store
\* added and saved is not among them.
C23_Witness ==
    /\ last.op = "other.save"
    /\ last.ret
    /\ data = saved
    /\ Len(data) = 2
    /\ Len(other.data) = 2
    /\ other.data[1] = data[1]
    /\ FileHolds(dataFile, other.data)
    /\ \A i \in 1..Len(dataFile.items) : dataFile.items[i].obj # data[2]

FirstOf(lst, n) == SubSeq(lst, 1, IF Len(lst) > n THEN n ELSE Len(lst))

\* No element occurs twice.
NoDuplicates(lst) ==
    \A i, j \in 1..Len(lst) : lst[i] = lst[j] => i = j

\* C30: after add_to_history calls with non-blank queries from an empty
\* history, the in-memory history has no duplicates and the query searched
\* last is its first element, and search_history_simple.json holds the (at
\* most 20) most recently searched distinct queries, newest first, so that
\* the query just searched is in the file.
C30_HistoryFileHoldsNewest ==
    /\ NoDuplicates(search_history)
    /\ (last.op = "add_to_history" /\ NotBlank(last.args.query)) =>
          /\ search_history[1] = Strip(last.args.query)
          /\ historyFile = Array(FirstOf(search_history, HistoryKept))
          /\ Strip(last.args.query) \in Range(historyFile.items)

\* The part of C30 about the list in memory: no duplicates, the query
\* searched last first.
HistoryInMemory ==
    /\ NoDuplicates(search_history)
    /\ (last.op = "add_to_history" /\ NotBlank(last.args.query)) =>
          search_history[1] = Strip(last.args.query)

\* The file holds the tail of the list in memory.
HistoryFileIsTail ==
    search_history # <<>> =>
       historyFile = Array(LastOf(search_history, HistoryKept))

====
